---- MODULE Spec2Model ----
(***************************************************************************)
(* Model of create_connection_profiles_and_datastream.py: a one-shot       *)
(* provisioning script that issues four HTTP requests to the Datastream    *)
(* control plane (create source profile, create destination profile,       *)
(* create stream, start stream), classifies each response by its status    *)
(* code, prints one line per call and exits.                               *)
(***************************************************************************)
EXTENDS Integers, Sequences, FiniteSets, TLC

(* ------------------------------ bounds --------------------------------- *)
\* number of times the operator invokes the script against the same remote
MaxRuns == 2
\* a blocking requests.request call takes 0..MaxLatency time units
MaxLatency == 1
\* time.sleep may suspend longer than requested by 0..MaxOversleep units
MaxOversleep == 1

(* --------------------------- input domains ----------------------------- *)
\* what the operator may type at the two getpass prompts
Tokens == {"tokA", "tokB"}
Passwords == {"pw1", "pw2"}
\* the operator's credentials: a token and the password that goes with it
Credentials == {<<"tokA", "pw1">>, <<"tokB", "pw2">>}
\* status codes and bodies the remote may answer with
Codes == {200, 201, 409, 500}
\* the body of an accepted (2xx) request describes the operation started;
\* any other response carries one of the error bodies
OkBody == "{\"name\":\"operations/op-1\"}"
ErrBodies == {"{\"error\":\"invalid argument\"}", "{\"error\":\"internal\"}"}
Bodies(status_code) == IF status_code \in 200..299 THEN {OkBody} ELSE ErrBodies

(* --------------------- configuration (variables.py) -------------------- *)
PROJECT_ID == "demo-proj"
GCP_LOCATION == "us-central1"
source_profile_config ==
    [source_profile_name |-> "src-profile-name",
     source_profile_id   |-> "src-profile-id",
     source_db_hostname  |-> "10.0.0.1",
     source_db_port      |-> "3306",
     source_db_username  |-> "dbuser"]
destination_profile_config ==
    [destination_profile_name |-> "dst-profile-name",
     destination_profile_id   |-> "dst-profile-id",
     storage_bucket_name      |-> "bucket",
     storage_bucket_prefix    |-> "/prefix"]
stream_config ==
    [stream_id |-> "stream-id", stream_name |-> "stream-name"]

(* ------------------------------ operations ----------------------------- *)
SRC == "create_source_connection_profile"
DST == "create_destination_connection_profile"
CRS == "create_stream"
STS == "start_stream"
\* the order in which main calls the four functions
OpOrder == <<SRC, DST, CRS, STS>>
Ops == {SRC, DST, CRS, STS}

\* exit status of a process that is still running
RUNNING == -1

\* time.sleep(60)
SLEEP_SECS == 60

VARIABLES
    pc,            \* position of main
    run,           \* which invocation of the script this is
    auth_token,    \* main's auth_token
    source_db_password,
    status,        \* main's *_status variables assigned so far, by function
    reqs,          \* requests sent in this run, in order
    resps,         \* responses received in this run, in order
    out,           \* lines printed in this run, in order
    sleeps,        \* completed time.sleep calls of this run
    now,           \* time elapsed since the run started
    exit_code,     \* process exit status, RUNNING while main runs
    remote,        \* resources the remote holds
    remoteAtStart  \* resources the remote held when this run started

vars == <<pc, run, auth_token, source_db_password, status, reqs, resps, out,
          sleeps, now, exit_code, remote, remoteAtStart>>

(* ------------------- create_source_connection_profile ------------------ *)
\* the POST request built from the source config, the password and the token
create_source_connection_profile_request(db_password, token) ==
    [op      |-> SRC,
     verb    |-> "POST",
     url     |-> "https://datastream.googleapis.com/v1/projects/" \o PROJECT_ID
                 \o "/locations/" \o GCP_LOCATION
                 \o "/connectionProfiles?connectionProfileId="
                 \o source_profile_config.source_profile_id,
     headers |-> [Authorization |-> token, ContentType |-> "application/json"],
     payload |-> [displayName |-> source_profile_config.source_profile_name,
                  mysqlProfile_hostname |-> source_profile_config.source_db_hostname,
                  mysqlProfile_port     |-> source_profile_config.source_db_port,
                  mysqlProfile_username |-> source_profile_config.source_db_username,
                  mysqlProfile_password |-> db_password,
                  staticServiceIpConnectivity |-> "{}"]]

\* variant: the failure line names the profile instead of carrying the body
create_source_connection_profile_result_no_body(status_code, text) ==
    IF status_code = 200
    THEN [stat |-> TRUE,
          line |-> [fmt |-> "Source connection profile {} created successfully",
                    arg |-> source_profile_config.source_profile_name]]
    ELSE IF status_code = 409
    THEN [stat |-> TRUE,
          line |-> [fmt |-> "Source connection profile {} already exist",
                    arg |-> source_profile_config.source_profile_name]]
    ELSE [stat |-> FALSE,
          line |-> [fmt |-> "Issue while creating source connection profile: {}",
                    arg |-> source_profile_config.source_profile_name]]

\* the branch on response.status_code: the line printed and the value returned
create_source_connection_profile_result(status_code, text) ==
    IF status_code = 200
    THEN [stat |-> TRUE,
          line |-> [fmt |-> "Source connection profile {} created successfully",
                    arg |-> source_profile_config.source_profile_name]]
    ELSE IF status_code = 409
    THEN [stat |-> TRUE,
          line |-> [fmt |-> "Source connection profile {} already exist",
                    arg |-> source_profile_config.source_profile_name]]
    ELSE [stat |-> FALSE,
          line |-> [fmt |-> "Issue while creating source connection profile: {}",
                    arg |-> text]]

(* ---------------- create_destination_connection_profile ---------------- *)
create_destination_connection_profile_request(token) ==
    [op      |-> DST,
     verb    |-> "POST",
     url     |-> "https://datastream.clients6.google.com/v1alpha1/projects/"
                 \o PROJECT_ID \o "/locations/" \o GCP_LOCATION
                 \o "/connectionProfiles?connectionProfileId="
                 \o destination_profile_config.destination_profile_id,
     headers |-> [Authorization |-> token, ContentType |-> "application/json"],
     payload |-> [displayName |-> destination_profile_config.destination_profile_name,
                  gcsProfile_bucketName |-> destination_profile_config.storage_bucket_name,
                  gcsProfile_rootPath   |-> destination_profile_config.storage_bucket_prefix]]

\* variant: any 2xx status code takes the "created successfully" branch
create_destination_connection_profile_result_any_2xx(status_code, text) ==
    IF status_code \in 200..299
    THEN [stat |-> TRUE,
          line |-> [fmt |-> "Destination connection profile {} created successfully",
                    arg |-> destination_profile_config.destination_profile_id]]
    ELSE IF status_code = 409
    THEN [stat |-> TRUE,
          line |-> [fmt |-> "Destination connection profile {} already exist",
                    arg |-> destination_profile_config.destination_profile_id]]
    ELSE [stat |-> FALSE,
          line |-> [fmt |-> "Issue while creating destination connection profile: {}",
                    arg |-> text]]

create_destination_connection_profile_result(status_code, text) ==
    IF status_code = 200
    THEN [stat |-> TRUE,
          line |-> [fmt |-> "Destination connection profile {} created successfully",
                    arg |-> destination_profile_config.destination_profile_id]]
    ELSE IF status_code = 409
    THEN [stat |-> TRUE,
          line |-> [fmt |-> "Destination connection profile {} already exist",
                    arg |-> destination_profile_config.destination_profile_id]]
    ELSE [stat |-> FALSE,
          line |-> [fmt |-> "Issue while creating destination connection profile: {}",
                    arg |-> text]]

(* ----------------------------- create_stream --------------------------- *)
create_stream_request(token) ==
    [op      |-> CRS,
     verb    |-> "POST",
     url     |-> "https://datastream.clients6.google.com/v1alpha1/projects/"
                 \o PROJECT_ID \o "/locations/" \o GCP_LOCATION
                 \o "/streams?streamId=" \o stream_config.stream_id,
     headers |-> [Authorization |-> token, ContentType |-> "application/json"],
     payload |-> [displayName |-> stream_config.stream_name,
                  sourceConfig_sourceConnectionProfileName |->
                      "projects/" \o PROJECT_ID \o "/locations/" \o GCP_LOCATION
                      \o "/connectionProfiles/"
                      \o source_profile_config.source_profile_id,
                  sourceConfig_mysqlSourceConfig |-> "{allowlist, rejectlist}",
                  destinationConfig_destinationConnectionProfileName |->
                      "projects/" \o PROJECT_ID \o "/locations/" \o GCP_LOCATION
                      \o "/connectionProfiles/"
                      \o destination_profile_config.destination_profile_id,
                  destinationConfig_gcsDestinationConfig |-> "{path, avroFileFormat}",
                  backfillAll |-> "{mysqlExcludedObjects}"]]

\* variant: without the 409 branch, an existing stream is a failure
create_stream_result_no_409(status_code, text) ==
    IF status_code = 200
    THEN [stat |-> TRUE,
          line |-> [fmt |-> "Stream {} created successfully",
                    arg |-> stream_config.stream_name]]
    ELSE [stat |-> FALSE,
          line |-> [fmt |-> "Issue while creating stream: {}", arg |-> text]]

create_stream_result(status_code, text) ==
    IF status_code = 200
    THEN [stat |-> TRUE,
          line |-> [fmt |-> "Stream {} created successfully",
                    arg |-> stream_config.stream_name]]
    ELSE IF status_code = 409
    THEN [stat |-> TRUE,
          line |-> [fmt |-> "Stream {} already exist",
                    arg |-> stream_config.stream_name]]
    ELSE [stat |-> FALSE,
          line |-> [fmt |-> "Issue while creating stream: {}", arg |-> text]]

(* ------------------------------ start_stream --------------------------- *)
\* variant: the PATCH request is sent without the token
start_stream_request_no_token(token) ==
    [op      |-> STS,
     verb    |-> "PATCH",
     url     |-> "https://datastream.googleapis.com/v1/projects/" \o PROJECT_ID
                 \o "/locations/" \o GCP_LOCATION \o "/streams/"
                 \o stream_config.stream_id \o "?updateMask=state",
     headers |-> [Authorization |-> "", ContentType |-> "application/json"],
     payload |-> [state |-> "RUNNING"]]

start_stream_request(token) ==
    [op      |-> STS,
     verb    |-> "PATCH",
     url     |-> "https://datastream.googleapis.com/v1/projects/" \o PROJECT_ID
                 \o "/locations/" \o GCP_LOCATION \o "/streams/"
                 \o stream_config.stream_id \o "?updateMask=state",
     headers |-> [Authorization |-> token, ContentType |-> "application/json"],
     payload |-> [state |-> "RUNNING"]]

\* variant: the 409 branch of the creation functions copied into start_stream
start_stream_result_with_409(status_code, text) ==
    IF status_code = 200
    THEN [stat |-> TRUE,
          line |-> [fmt |-> "Stream {} started successfully",
                    arg |-> stream_config.stream_name]]
    ELSE IF status_code = 409
    THEN [stat |-> TRUE,
          line |-> [fmt |-> "Stream {} already exist",
                    arg |-> stream_config.stream_name]]
    ELSE [stat |-> FALSE,
          line |-> [fmt |-> "Issue while starting stream: {}", arg |-> text]]

\* no 409 branch here: everything but 200 is a failure
start_stream_result(status_code, text) ==
    IF status_code = 200
    THEN [stat |-> TRUE,
          line |-> [fmt |-> "Stream {} started successfully",
                    arg |-> stream_config.stream_name]]
    ELSE [stat |-> FALSE,
          line |-> [fmt |-> "Issue while starting stream: {}", arg |-> text]]

(* --------------------------------- main -------------------------------- *)
\* where main goes once a function has returned its status; a main that
\* returns without sys.exit ends the process with status 0
\* variant: a failed source profile creation is tried again
main_after_source_retry(stat) ==
    IF stat THEN [pc |-> "call_destination", exit_code |-> RUNNING]
            ELSE [pc |-> "call_source", exit_code |-> RUNNING]

main_after_source(stat) ==
    IF stat THEN [pc |-> "call_destination", exit_code |-> RUNNING]
            ELSE [pc |-> "done", exit_code |-> 1]

\* variant: the destination status is not tested before create_stream
main_after_destination_unchecked(stat) ==
    [pc |-> "call_stream", exit_code |-> RUNNING]

main_after_destination(stat) ==
    IF stat THEN [pc |-> "call_stream", exit_code |-> RUNNING]
            ELSE [pc |-> "done", exit_code |-> 1]

\* variant: start_stream is called right away, without time.sleep
main_after_create_stream_no_sleep(stat) ==
    IF stat THEN [pc |-> "call_start", exit_code |-> RUNNING]
            ELSE [pc |-> "done", exit_code |-> 0]

\* "if create_stream_status:" has no else branch: main falls off its end
main_after_create_stream(stat) ==
    IF stat THEN [pc |-> "sleep", exit_code |-> RUNNING]
            ELSE [pc |-> "done", exit_code |-> 0]

\* variant: "Process Completed!" is printed before the status is tested
main_after_start_stream_print_first(stat) ==
    IF stat THEN [pc |-> "done", exit_code |-> 0,
                  lines |-> <<[fmt |-> "Process Completed!", arg |-> ""]>>]
            ELSE [pc |-> "done", exit_code |-> 1,
                  lines |-> <<[fmt |-> "Process Completed!", arg |-> ""]>>]

main_after_start_stream(stat) ==
    IF stat THEN [pc |-> "done", exit_code |-> 0,
                  lines |-> <<[fmt |-> "Process Completed!", arg |-> ""]>>]
            ELSE [pc |-> "done", exit_code |-> 1, lines |-> <<>>]

\* how long time.sleep(60) suspends main, given how much it oversleeps
sleep_duration(over) == SLEEP_SECS + over

(* --------------------------- the remote side --------------------------- *)
\* the resource a creation request asks the remote to create
ResourceOf(op) ==
    IF op = SRC THEN source_profile_config.source_profile_id
    ELSE IF op = DST THEN destination_profile_config.destination_profile_id
    ELSE stream_config.stream_id

\* the remote's resources after it answered a request with status_code:
\* a creation request it accepted (2xx) leaves the resource behind
RemoteAfter(req, status_code) ==
    IF req.verb = "POST" /\ status_code \in 200..299
    THEN remote \cup {ResourceOf(req.op)}
    ELSE IF req.verb = "DELETE"
    THEN remote \ {ResourceOf(req.op)}
    ELSE remote

(* -------------------------------- actions ------------------------------ *)
Init ==
    /\ pc = "prompt"
    /\ run = 1
    /\ auth_token = ""
    /\ source_db_password = ""
    /\ status = [o \in {} |-> TRUE]
    /\ reqs = <<>>
    /\ resps = <<>>
    /\ out = <<>>
    /\ sleeps = <<>>
    /\ now = 0
    /\ exit_code = RUNNING
    /\ remote = {}
    /\ remoteAtStart = {}

\* the two getpass prompts and the "Bearer " prefix
Prompt ==
    /\ pc = "prompt"
    /\ \E cred \in Credentials :
          /\ cred[1] \in Tokens /\ cred[2] \in Passwords
          /\ auth_token' = "Bearer " \o cred[1]
          /\ source_db_password' = cred[2]
    /\ pc' = "call_source"
    /\ UNCHANGED <<run, status, reqs, resps, out, sleeps, now, exit_code,
                   remote, remoteAtStart>>

\* requests.request(...) sends req and blocks
Send(at, next, req) ==
    /\ pc = at
    /\ reqs' = Append(reqs, [req EXCEPT !.at = now])
    /\ pc' = next
    /\ UNCHANGED <<run, auth_token, source_db_password, status, resps, out,
                   sleeps, now, exit_code, remote, remoteAtStart>>

\* the response arrives after d time units; the function prints its line and
\* returns r.stat, and main moves on to branch.pc
Receive(op, status_code, text, d, r, branch, more) ==
    /\ now' = now + d
    /\ resps' = Append(resps, [op |-> op, status_code |-> status_code,
                               text |-> text, at |-> now + d])
    /\ out' = Append(out, r.line) \o more
    /\ status' = status @@ (op :> r.stat)
    /\ pc' = branch.pc
    /\ exit_code' = branch.exit_code
    /\ remote' = RemoteAfter(reqs[Len(reqs)], status_code)
    /\ UNCHANGED <<run, auth_token, source_db_password, reqs, sleeps,
                   remoteAtStart>>

create_source_connection_profile_call ==
    Send("call_source", "wait_source",
         [at |-> 0] @@ create_source_connection_profile_request(
                           source_db_password, auth_token))

create_source_connection_profile_return ==
    /\ pc = "wait_source"
    /\ \E status_code \in Codes, d \in 0..MaxLatency :
       \E text \in Bodies(status_code) :
          LET r == create_source_connection_profile_result(status_code, text)
          IN  Receive(SRC, status_code, text, d, r, main_after_source(r.stat), <<>>)

create_destination_connection_profile_call ==
    Send("call_destination", "wait_destination",
         [at |-> 0] @@ create_destination_connection_profile_request(auth_token))

create_destination_connection_profile_return ==
    /\ pc = "wait_destination"
    /\ \E status_code \in Codes, d \in 0..MaxLatency :
       \E text \in Bodies(status_code) :
          LET r == create_destination_connection_profile_result(status_code, text)
          IN  Receive(DST, status_code, text, d, r,
                      main_after_destination(r.stat), <<>>)

create_stream_call ==
    Send("call_stream", "wait_stream",
         [at |-> 0] @@ create_stream_request(auth_token))

create_stream_return ==
    /\ pc = "wait_stream"
    /\ \E status_code \in Codes, d \in 0..MaxLatency :
       \E text \in Bodies(status_code) :
          LET r == create_stream_result(status_code, text)
          IN  Receive(CRS, status_code, text, d, r,
                      main_after_create_stream(r.stat), <<>>)

\* time.sleep(60)
Sleep ==
    /\ pc = "sleep"
    /\ \E over \in 0..MaxOversleep :
          /\ now' = now + sleep_duration(over)
          /\ sleeps' = Append(sleeps, [from |-> now, to |-> now + sleep_duration(over)])
    /\ pc' = "call_start"
    /\ UNCHANGED <<run, auth_token, source_db_password, status, reqs, resps,
                   out, exit_code, remote, remoteAtStart>>

start_stream_call ==
    Send("call_start", "wait_start",
         [at |-> 0] @@ start_stream_request(auth_token))

start_stream_return ==
    /\ pc = "wait_start"
    /\ \E status_code \in Codes, d \in 0..MaxLatency :
       \E text \in Bodies(status_code) :
          LET r == start_stream_result(status_code, text)
              b == main_after_start_stream(r.stat)
          IN  Receive(STS, status_code, text, d, r, b, b.lines)

\* the operator runs the script again, against what the remote now holds
Rerun ==
    /\ pc = "done"
    /\ run < MaxRuns
    /\ run' = run + 1
    /\ pc' = "prompt"
    /\ auth_token' = ""
    /\ source_db_password' = ""
    /\ status' = [o \in {} |-> TRUE]
    /\ reqs' = <<>>
    /\ resps' = <<>>
    /\ out' = <<>>
    /\ sleeps' = <<>>
    /\ now' = 0
    /\ exit_code' = RUNNING
    /\ remoteAtStart' = remote
    /\ UNCHANGED remote

\* one step of a run of main
MainStep ==
    \/ Prompt
    \/ create_source_connection_profile_call
    \/ create_source_connection_profile_return
    \/ create_destination_connection_profile_call
    \/ create_destination_connection_profile_return
    \/ create_stream_call
    \/ create_stream_return
    \/ Sleep
    \/ start_stream_call
    \/ start_stream_return

Next == MainStep \/ Rerun

Spec == Init /\ [][Next]_vars

(* ============================== properties ============================== *)
\* vocabulary of the properties: what is read off a run's logs
CreationOps == {SRC, DST, CRS}
Requested(op) == \E i \in 1..Len(reqs) : reqs[i].op = op
Returned(op) == op \in DOMAIN status
Succeeded(op) == op \in DOMAIN status /\ status[op]
Failed(op) == op \in DOMAIN status /\ ~status[op]
\* the line a function printed for its i-th response is the i-th line
CreatedFmt(op) ==
    IF op = SRC THEN "Source connection profile {} created successfully"
    ELSE IF op = DST THEN "Destination connection profile {} created successfully"
    ELSE IF op = CRS THEN "Stream {} created successfully"
    ELSE "Stream {} started successfully"
ExistsFmt(op) ==
    IF op = SRC THEN "Source connection profile {} already exist"
    ELSE IF op = DST THEN "Destination connection profile {} already exist"
    ELSE "Stream {} already exist"
IssueFmt(op) ==
    IF op = SRC THEN "Issue while creating source connection profile: {}"
    ELSE IF op = DST THEN "Issue while creating destination connection profile: {}"
    ELSE IF op = CRS THEN "Issue while creating stream: {}"
    ELSE "Issue while starting stream: {}"
ConfirmationFmts(op) ==
    {CreatedFmt(op)} \cup (IF op \in CreationOps THEN {ExistsFmt(op)} ELSE {})
\* the names by which a confirmation may name the resource of op
ResourceNames(op) ==
    IF op = SRC THEN {source_profile_config.source_profile_name,
                      source_profile_config.source_profile_id}
    ELSE IF op = DST THEN {destination_profile_config.destination_profile_name,
                           destination_profile_config.destination_profile_id}
    ELSE {stream_config.stream_name, stream_config.stream_id}
\* after the i-th response main went on: it sent the next request, or is on
\* its way to sending it
Proceeded(i) ==
    \/ Len(reqs) > i
    \/ /\ i < 4
       /\ pc \in (IF i = 1 THEN {"call_destination"}
                  ELSE IF i = 2 THEN {"call_stream"}
                  ELSE {"sleep", "call_start"})
Completed == \E j \in 1..Len(out) : out[j].fmt = "Process Completed!"

\* C1: once the process has exited, its exit status is 0 if and only if all
\* four operations reported success and 1 if any of them reported failure;
\* when create-stream is answered 500 the body is printed, start-stream is
\* never called and the exit status is 1.
C1_ExitStatusIffAllSucceeded ==
    pc = "done" =>
        /\ exit_code = 0 <=> \A op \in Ops : Succeeded(op)
        /\ (\E op \in Ops : Failed(op)) => exit_code = 1
        /\ \A i \in 1..Len(resps) :
              (resps[i].op = CRS /\ resps[i].status_code = 500) =>
                  /\ out[i].arg = resps[i].text
                  /\ ~Requested(STS)
                  /\ exit_code = 1

\* C2: once an operation has failed, no later operation of the order is
\* ever invoked.
C2_ShortCircuit ==
    \A i \in 1..4 : \A j \in 1..4 :
        (i < j /\ Failed(OpOrder[i])) => ~Requested(OpOrder[j])

C2_Witness ==
    /\ pc = "done"
    /\ Failed(DST)
    /\ Len(reqs) = 2

\* C3: a 409 answer to one of the three creation operations is a success
\* after which main goes on to the next operation as after a 200; a 409
\* answer to start-stream is a failure and the run ends with exit status 1.
C3_ConflictAccepted ==
    \A i \in 1..Len(resps) :
        resps[i].status_code = 409 =>
            IF resps[i].op \in CreationOps
            THEN /\ Succeeded(resps[i].op)
                 /\ out[i].fmt = ExistsFmt(resps[i].op)
                 /\ Proceeded(i)
            ELSE /\ Failed(STS)
                 /\ pc = "done"
                 /\ exit_code = 1
                 /\ ~Completed

C3_Witness ==
    /\ Len(resps) = 4
    /\ resps[1].status_code = 409
    /\ resps[2].status_code = 409
    /\ resps[3].status_code = 409
    /\ resps[4].status_code = 409
    /\ exit_code = 1

\* C4 as stated: every 2xx answer yields success and a confirmation naming
\* the resource, and only a non-2xx, non-409 answer is a failure.
C4_Every2xxSucceeds ==
    \A i \in 1..Len(resps) :
        /\ resps[i].status_code \in 200..299 =>
              /\ Succeeded(resps[i].op)
              /\ out[i].fmt \in ConfirmationFmts(resps[i].op)
              /\ out[i].arg \in ResourceNames(resps[i].op)
        /\ Failed(resps[i].op) =>
              /\ resps[i].status_code \notin 200..299
              /\ resps[i].status_code # 409

\* C4 amended: the answer 200, and no other 2xx answer, yields success and
\* the "created/started successfully" line naming the resource; an operation
\* fails exactly when its answer is neither 200 nor, for the three creation
\* operations, 409.
C4_Only200Succeeds ==
    \A i \in 1..Len(resps) :
        /\ resps[i].status_code = 200 =>
              /\ Succeeded(resps[i].op)
              /\ out[i].fmt = CreatedFmt(resps[i].op)
              /\ out[i].arg \in ResourceNames(resps[i].op)
        /\ Failed(resps[i].op) <=>
              ~ \/ resps[i].status_code = 200
                \/ resps[i].status_code = 409 /\ resps[i].op \in CreationOps

C4_Witness ==
    /\ Len(resps) = 2
    /\ resps[1].status_code = 200
    /\ Succeeded(SRC)
    /\ resps[2].status_code = 201
    /\ Failed(DST)

\* C5: an answer outside {200, and 409 for a creation operation} makes the
\* operation fail, the line printed for it is the diagnostic carrying the
\* raw response body, and no confirmation line is printed for it.
C5_FailureSurfacesBody ==
    \A i \in 1..Len(resps) :
        LET op == resps[i].op
            accepted == {200} \cup (IF op \in CreationOps THEN {409} ELSE {})
        IN  resps[i].status_code \notin accepted =>
                /\ Failed(op)
                /\ out[i].fmt = IssueFmt(op)
                /\ out[i].arg = resps[i].text
                /\ \A j \in 1..Len(out) : out[j].fmt \notin ConfirmationFmts(op)

C5_Witness ==
    /\ Len(resps) = 2
    /\ resps[2].status_code = 500
    /\ out[2].arg = resps[2].text
    /\ pc = "done"

\* C6: start-stream's request is sent no sooner than 60 time units after
\* create-stream's response was received, and main sleeps only after a
\* create-stream that succeeded.
C6_WaitBeforeStart ==
    /\ \A j \in 1..Len(reqs) :
          reqs[j].op = STS =>
              \E i \in 1..Len(resps) :
                  /\ resps[i].op = CRS
                  /\ Succeeded(CRS)
                  /\ reqs[j].at >= resps[i].at + 60
                  /\ Len(sleeps) = 1
                  /\ sleeps[1].from >= resps[i].at
                  /\ sleeps[1].to - sleeps[1].from >= 60
                  /\ sleeps[1].to <= reqs[j].at
    /\ Len(sleeps) > 0 => Succeeded(CRS)
    /\ (\E op \in Ops : Failed(op)) /\ ~Returned(STS) => Len(sleeps) = 0

C6_Witness ==
    /\ Requested(STS)
    /\ Len(sleeps) = 1
    /\ resps[3].at > 0

\* C7: when all four answers are 200 the run prints the four confirmation
\* lines in order, then "Process Completed!", and exits 0; no run in which
\* an operation failed prints "Process Completed!".
C7_FourLinesThenCompleted ==
    /\ (/\ pc = "done"
        /\ Len(resps) = 4
        /\ \A i \in 1..4 : resps[i].status_code = 200)
       => /\ Len(out) = 5
          /\ \A i \in 1..4 : /\ out[i].fmt = CreatedFmt(OpOrder[i])
                             /\ out[i].arg \in ResourceNames(OpOrder[i])
          /\ out[5].fmt = "Process Completed!"
          /\ exit_code = 0
    /\ Completed => \A op \in Ops : Succeeded(op)

C7_Witness ==
    /\ pc = "done"
    /\ Len(resps) = 4
    /\ \A i \in 1..4 : resps[i].status_code = 200
    /\ Completed

\* C8: the requests of a run are a prefix of the four operations in order,
\* each sent at most once and only after its predecessor returned success,
\* and a run that is not over can always take its next step.
C8_PrefixOfOrder ==
    /\ Len(reqs) <= 4
    /\ \A i \in 1..Len(reqs) :
          /\ reqs[i].op = OpOrder[i]
          /\ i > 1 => Succeeded(OpOrder[i - 1])
    /\ Len(resps) <= Len(reqs)
    /\ pc = "done" \/ ENABLED MainStep
    /\ pc = "done" => exit_code # RUNNING /\ Len(resps) = Len(reqs)

C8_Witness ==
    /\ pc = "done"
    /\ Len(reqs) = 4
    /\ Len(resps) = 4

\* C9: no request deletes anything, so what earlier runs and earlier
\* operations created stays in the remote; and in a later run a creation
\* operation answered 409 for a resource that already existed reports
\* success and main goes on to the next operation.
C9_NoRollbackRerunTolerated ==
    /\ \A i \in 1..Len(reqs) : reqs[i].verb \in {"POST", "PATCH"}
    /\ remoteAtStart \subseteq remote
    /\ \A i \in 1..Len(resps) :
          (resps[i].op \in CreationOps /\ resps[i].status_code = 200)
              => ResourceOf(resps[i].op) \in remote
    /\ \A i \in 1..Len(resps) :
          (/\ run > 1
           /\ resps[i].op \in CreationOps
           /\ ResourceOf(resps[i].op) \in remoteAtStart
           /\ resps[i].status_code = 409)
              => Succeeded(resps[i].op) /\ Proceeded(i)

C9_Witness ==
    /\ run = 2
    /\ remoteAtStart = {ResourceOf(SRC), ResourceOf(DST)}
    /\ Len(reqs) = 4
    /\ resps[1].status_code = 409
    /\ resps[2].status_code = 409
    /\ resps[3].status_code = 200
    /\ remote = {ResourceOf(SRC), ResourceOf(DST), ResourceOf(CRS)}

\* C10: the database password is in the body of the create-source-profile
\* request and in no other request; no line the script prints carries the
\* password or the token; every request carries the bearer token as its
\* Authorization header.
C10_SecretsPlacement ==
    /\ pc # "prompt" =>
          \E cred \in Credentials :
              auth_token = "Bearer " \o cred[1] /\ source_db_password = cred[2]
    /\ \A i \in 1..Len(reqs) :
          /\ reqs[i].headers.Authorization = auth_token
          /\ reqs[i].headers.ContentType # source_db_password
          /\ reqs[i].url # source_db_password
          /\ IF reqs[i].op = SRC
             THEN reqs[i].payload.mysqlProfile_password = source_db_password
             ELSE \A k \in DOMAIN reqs[i].payload :
                      reqs[i].payload[k] # source_db_password
    /\ \A j \in 1..Len(out) :
          /\ out[j].arg # source_db_password
          /\ out[j].arg # auth_token
          /\ "Bearer " \o out[j].arg # auth_token

C10_Witness ==
    /\ Len(reqs) = 4
    /\ Len(out) = 5
    /\ reqs[1].payload.mysqlProfile_password = "pw2"
    /\ reqs[4].headers.Authorization = "Bearer tokB"

====
